---------------------------- MODULE Spec2Model ----------------------------
(***************************************************************************)
(* Model of the account-creation IRC bot (ircbot.py) and of the lab plugin *)
(* (ircbot/plugin/lab.py).  Strings are TLA+ strings handled with Len,     *)
(* SubSeq and \o, so that parsing and formatting are computed character by *)
(* character as the Python code computes them.                             *)
(***************************************************************************)
EXTENDS Naturals, Sequences, FiniteSets, TLC

(* ------------------------------ bounds -------------------------------- *)
\* largest number of rt#<digits> references appended to a generated text
MaxRefs == 2
\* largest number of reasons carried by a generated lifecycle event
MaxReasons == 2
\* largest number of pending requests returned by get_pending_requests
MaxPending == 2

(* --------------------------- str primitives --------------------------- *)
Char(s, i) == SubSeq(s, i, i)

Suffix(s, i) == SubSeq(s, i, Len(s))

DigitChars == {"0", "1", "2", "3", "4", "5", "6", "7", "8", "9"}

Whitespace == {" "}

\* str.startswith(p)
StartsWith(s, p) == Len(s) >= Len(p) /\ SubSeq(s, 1, Len(p)) = p

\* str.startswith((p1, p2))
StartsWithAny(s, ps) == \E p \in ps : StartsWith(s, p)

\* str.count(c) for a one-character c
RECURSIVE Count(_, _)
Count(s, c) ==
    IF s = "" THEN 0
    ELSE (IF Char(s, 1) = c THEN 1 ELSE 0) + Count(Suffix(s, 2), c)

\* str.split(sep) for a one-character sep: every separator cuts, so that
\* consecutive separators yield empty fields and "".split(sep) == [""]
RECURSIVE SplitFrom(_, _, _)
SplitFrom(s, sep, cur) ==
    IF s = "" THEN <<cur>>
    ELSE IF Char(s, 1) = sep
         THEN <<cur>> \o SplitFrom(Suffix(s, 2), sep, "")
         ELSE SplitFrom(Suffix(s, 2), sep, cur \o Char(s, 1))

Split(s, sep) == SplitFrom(s, sep, "")

\* str.strip()
RECURSIVE LStrip(_)
LStrip(s) ==
    IF s # "" /\ Char(s, 1) \in Whitespace THEN LStrip(Suffix(s, 2)) ELSE s

RECURSIVE RStrip(_)
RStrip(s) ==
    IF s # "" /\ Char(s, Len(s)) \in Whitespace
    THEN RStrip(SubSeq(s, 1, Len(s) - 1)) ELSE s

Strip(s) == RStrip(LStrip(s))

\* sep.join(words)
RECURSIVE Join(_, _)
Join(words, sep) ==
    IF words = <<>> THEN ""
    ELSE IF Len(words) = 1 THEN words[1]
    ELSE words[1] \o sep \o Join(Tail(words), sep)

\* int(digits)
DigitVal(c) ==
    CASE c = "0" -> 0 [] c = "1" -> 1 [] c = "2" -> 2 [] c = "3" -> 3
      [] c = "4" -> 4 [] c = "5" -> 5 [] c = "6" -> 6 [] c = "7" -> 7
      [] c = "8" -> 8 [] c = "9" -> 9

RECURSIVE IntAcc(_, _)
IntAcc(s, acc) ==
    IF s = "" THEN acc ELSE IntAcc(Suffix(s, 2), 10 * acc + DigitVal(Char(s, 1)))

Int(s) == IntAcc(s, 0)

\* str(n) for a natural number n
DigitChar(d) ==
    CASE d = 0 -> "0" [] d = 1 -> "1" [] d = 2 -> "2" [] d = 3 -> "3"
      [] d = 4 -> "4" [] d = 5 -> "5" [] d = 6 -> "6" [] d = 7 -> "7"
      [] d = 8 -> "8" [] d = 9 -> "9"

RECURSIVE Str(_)
Str(n) == IF n < 10 THEN DigitChar(n) ELSE Str(n \div 10) \o DigitChar(n % 10)

\* the longest run of digits at the start of s (the greedy [0-9]+)
RECURSIVE DigitRun(_)
DigitRun(s) ==
    IF s # "" /\ Char(s, 1) \in DigitChars
    THEN Char(s, 1) \o DigitRun(Suffix(s, 2)) ELSE ""

\* re.findall(r'rt#([0-9]+)', msg): the digit groups of the non-overlapping
\* matches, scanned left to right
RECURSIVE FindTickets(_)
FindTickets(msg) ==
    IF msg = "" THEN <<>>
    ELSE IF StartsWith(msg, "rt#") /\ DigitRun(Suffix(msg, 4)) # ""
         THEN <<DigitRun(Suffix(msg, 4))>>
              \o FindTickets(Suffix(msg, 4 + Len(DigitRun(Suffix(msg, 4)))))
         ELSE FindTickets(Suffix(msg, 2))


(* ------------------------------- state -------------------------------- *)
VARIABLES
    user,       \* getpass.getuser(), fixed when the module is loaded
    bot_pc,     \* chat-session thread: "start", "connected", "running", "dead"
    channels,   \* bot.channels: joined channel -> set of operator nicks
    relay_pc,   \* celery thread: "connect", "capture", "dead"
    relay_exc,  \* the exception that ended the celery thread, "" if none
    sup_pc,     \* main thread: "check_bot", "check_celery", "sleep", "raised"
    sup_exc,    \* the thread named by the RuntimeError of main, "" if none
    last,       \* the last handler run: its input, its sends, tasks, exception
    sending     \* the threads inside bot.connection.privmsg, writing to the socket

vars == <<user, bot_pc, channels, relay_pc, relay_exc, sup_pc, sup_exc, last, sending>>

(* --------------------------- configuration ---------------------------- *)
Users == {"nobody", "jo"}

IRC_NICKNAME == IF user = "nobody" THEN "create" ELSE "create-" \o user

IRC_CHANNELS == IF user = "nobody" THEN <<"#rebuild", "#atool">> ELSE <<"#" \o user>>

IRC_CHANNELS_ANNOUNCE == <<"#atool">>

Range(seq) == {seq[i] : i \in 1..Len(seq)}

(* ------------------------------ on_pubmsg ----------------------------- *)
\* order lists the calls a command makes, as they are made: "delay" a task
\* submission, "wait" a task.wait, "respond" a response
NoEffect == [out |-> <<>>, tasks |-> <<>>, exc |-> "", order |-> <<>>]

\* one call of respond(msg, ping): the text handed to conn.privmsg
Reply(msg, ping) == [msg |-> msg, ping |-> ping]

Fmt(nick, r) == IF r.ping THEN nick \o ": " \o r.msg ELSE r.msg

Privmsgs_private(target, nick, replies) ==
    [i \in 1..Len(replies) |-> [target |-> nick, text |-> Fmt(nick, replies[i])]]

RECURSIVE Privmsgs(_, _, _)
Privmsgs(target, nick, replies) ==
    IF replies = <<>> THEN <<>>
    ELSE <<[target |-> target, text |-> Fmt(nick, Head(replies))]>>
         \o Privmsgs(target, nick, Tail(replies))

\* user.startswith('create')
SelfMessage_exact(nick) == nick = IRC_NICKNAME

SelfMessage(nick) == StartsWith(nick, "create")

\* user in self.channels[event.target].opers()
IsOper_anywhere(nick, target) == \E c \in DOMAIN channels : nick \in channels[c]

IsOper(nick, target) == nick \in channels[target]

\* str(RtTicket.from_number(rt, n))
TicketStr(n) == "rt#" \o Str(n)

\* the loop over the ticket references: found[i] tells whether the i-th
\* lookup succeeds; a failed one raises AssertionError, caught per reference
RECURSIVE TicketReplies_abort(_, _)
TicketReplies_abort(tickets, found) ==
    IF tickets = <<>> \/ ~found[1] THEN <<>>
    ELSE <<Reply(TicketStr(Int(tickets[1])), TRUE)>>
         \o TicketReplies_abort(Tail(tickets), Tail(found))

RECURSIVE TicketReplies(_, _)
TicketReplies(tickets, found) ==
    IF tickets = <<>> THEN <<>>
    ELSE (IF found[1] THEN <<Reply(TicketStr(Int(tickets[1])), TRUE)>> ELSE <<>>)
         \o TicketReplies(Tail(tickets), Tail(found))

(* --------------------------- handle_command --------------------------- *)
RECURSIVE Replies(_)
Replies(msgs) ==
    IF msgs = <<>> THEN <<>> ELSE <<Reply(Head(msgs), TRUE)>> \o Replies(Tail(msgs))

Task(name, args) == [name |-> name, args |-> args]

\* outcomes of task.wait(timeout=5) on get_pending_requests
RECURSIVE Pending(_)
Pending(n) == IF n = 0 THEN <<>> ELSE Pending(n - 1) \o <<"req" \o Str(n)>>

TaskOutcomes ==
    {[kind |-> "result", result |-> Pending(n)] : n \in 0..MaxPending}
    \cup {[kind |-> "TimeoutError", result |-> <<>>],
          [kind |-> "failed", result |-> <<>>]}

\* what becomes of a task nobody waits for: it succeeds, fails or never ends
TaskFates ==
    {[kind |-> k, result |-> <<>>] : k \in {"result", "failed", "pending"}}

Responds(replies) == [i \in 1..Len(replies) |-> "respond"]

NoOutcome == [kind |-> "unused", result |-> <<>>]

ListCommand(outcome) ==
    LET out == CASE outcome.kind = "result" ->
                     IF outcome.result # <<>> THEN Replies(outcome.result)
                     ELSE <<Reply("no pending requests", TRUE)>>
                 [] outcome.kind = "TimeoutError" ->
                     <<Reply("timed out loading list of requests, sorry!", TRUE)>>
                 [] OTHER -> <<>>
    IN  [out |-> out,
         tasks |-> <<Task("get_pending_requests", <<>>)>>,
         exc |-> IF outcome.kind = "failed" THEN "TaskError" ELSE "",
         order |-> <<"delay", "wait">> \o Responds(out)]

ApproveCommand_respond_first(args) ==
    IF args = <<>> THEN [NoEffect EXCEPT !.exc = "IndexError"]
    ELSE [out |-> <<Reply("approved " \o args[1] \o ", the account is being created", TRUE)>>,
          tasks |-> <<Task("approve_request", <<args[1]>>)>>,
          exc |-> "",
          order |-> <<"respond", "delay">>]

ApproveCommand(args) ==
    IF args = <<>> THEN [NoEffect EXCEPT !.exc = "IndexError"]
    ELSE [out |-> <<Reply("approved " \o args[1] \o ", the account is being created", TRUE)>>,
          tasks |-> <<Task("approve_request", <<args[1]>>)>>,
          exc |-> "",
          order |-> <<"delay", "respond">>]

RejectCommand(args) ==
    IF args = <<>> THEN [NoEffect EXCEPT !.exc = "IndexError"]
    ELSE [out |-> <<Reply("rejected " \o args[1] \o ", better luck next time", TRUE)>>,
          tasks |-> <<Task("reject_request", <<args[1]>>)>>,
          exc |-> "",
          order |-> <<"delay", "respond">>]

OperCommands(command, args, outcome) ==
    CASE command = "list" -> ListCommand(outcome)
      [] command = "approve" -> ApproveCommand(args)
      [] command = "reject" -> RejectCommand(args)
      [] OTHER -> NoEffect

\* the `if is_oper:` block
OperBlock_ungated(is_oper, command, args, outcome) ==
    OperCommands(command, args, outcome)

OperBlock(is_oper, command, args, outcome) ==
    IF is_oper THEN OperCommands(command, args, outcome) ELSE NoEffect

\* the `thank` branch
ThankReply_pinged(args) ==
    IF Join(args, " ") = "you" THEN Reply("you're most welcome", TRUE)
    ELSE Reply("thanks, " \o Join(args, " ") \o "!", TRUE)

ThankReply(args) ==
    IF Join(args, " ") = "you" THEN Reply("you're most welcome", TRUE)
    ELSE Reply("thanks, " \o Join(args, " ") \o "!", FALSE)

\* the second `if`, open to every sender
AnyCommands_default(command, args) ==
    CASE command = "thanks" -> <<Reply("you're welcome", TRUE)>>
      [] command = "thank" -> <<ThankReply(args)>>
      [] command \in {"list", "approve", "reject"} -> <<>>
      [] OTHER -> <<Reply("unknown command", TRUE)>>

AnyCommands(command, args) ==
    CASE command = "thanks" -> <<Reply("you're welcome", TRUE)>>
      [] command = "thank" -> <<ThankReply(args)>>
      [] OTHER -> <<>>

handle_command(is_oper, command, args, outcome) ==
    LET first == OperBlock(is_oper, command, args, outcome)
    IN  IF first.exc # "" THEN first
        ELSE [first EXCEPT !.out = first.out \o AnyCommands(command, args),
                           !.order = first.order \o Responds(AnyCommands(command, args))]

\* on_pubmsg on one event; found and outcome are what the ticket lookups and
\* the task wait will answer if the handler gets to them
on_pubmsg(event, found, outcome) ==
    LET base == [stage |-> "", nick |-> "", is_oper |-> FALSE, tickets |-> <<>>,
                 found |-> <<>>, handled |-> FALSE, command |-> "", args |-> <<>>,
                 outcome |-> NoOutcome, out |-> <<>>, tasks |-> <<>>, exc |-> "",
                 order |-> <<>>]
        nick == Split(event.source, "!")[1]
        msg == event.arguments[1]
        tickets == FindTickets(msg)
        parts == Split(Strip(Suffix(msg, Len(IRC_NICKNAME) + 2)), " ")
        command == Head(parts)
        args == Tail(parts)
        is_oper == IsOper(nick, event.target)
        eff == handle_command(is_oper, command, args, outcome)
    IN  IF event.target \notin DOMAIN channels
        THEN [base EXCEPT !.stage = "not_joined"]
        ELSE IF Count(event.source, "!") # 1
        THEN [base EXCEPT !.stage = "source", !.exc = "AssertionError"]
        ELSE IF SelfMessage(nick)
        THEN [base EXCEPT !.stage = "self", !.nick = nick]
        ELSE IF Len(event.arguments) # 1
        THEN [base EXCEPT !.stage = "arguments", !.nick = nick,
                          !.is_oper = is_oper, !.exc = "AssertionError"]
        ELSE IF tickets # <<>>
        THEN [base EXCEPT !.stage = "tickets", !.nick = nick, !.is_oper = is_oper,
                          !.tickets = tickets, !.found = found,
                          !.out = Privmsgs(event.target, nick,
                                           TicketReplies(tickets, found)),
                          !.order = Responds(TicketReplies(tickets, found))]
        ELSE IF StartsWithAny(msg, {IRC_NICKNAME \o " ", IRC_NICKNAME \o ": "})
        THEN [base EXCEPT !.stage = "command", !.nick = nick, !.is_oper = is_oper,
                          !.handled = TRUE, !.command = command, !.args = args,
                          !.outcome = IF eff.tasks # <<>> THEN outcome ELSE NoOutcome,
                          !.out = Privmsgs(event.target, nick, eff.out),
                          !.tasks = eff.tasks, !.exc = eff.exc,
                          !.order = eff.order]
        ELSE [base EXCEPT !.stage = "ignored", !.nick = nick, !.is_oper = is_oper]

(* ------------------------------- inputs ------------------------------- *)
AllChannels == {"#rebuild", "#atool", "#jo"}

Nicks == {"alice", "create-jo"}

Source(n) == n \o "!~" \o n \o "@host"

\* sources without a '!' and with two of them
MalformedSources == {"alice", "alice!~a!b@host"}

RECURSIVE RefTail(_)
RefTail(k) == IF k = 0 THEN "" ELSE RefTail(k - 1) \o " rt#" \o Str(k)

Commands ==
    {"list", "approve bob", "approve", "approve  bob", "reject bob", "reject",
     "thanks", "thank you", "thank pizza pie", "thank", "thank  you",
     "hello there", "", "is bob in the lab"}

Texts ==
    {IRC_NICKNAME \o ": " \o c : c \in Commands}
    \cup {IRC_NICKNAME \o " " \o c : c \in {"list", "thank you", "approve bob"}}
    \cup {"thanks", "list", IRC_NICKNAME \o ":list", IRC_NICKNAME \o "d list",
          "rt#", "rt#12rt#007", "is bob in the lab"}
    \cup {b \o RefTail(k) : b \in {"see", IRC_NICKNAME \o ": approve bob",
                                    IRC_NICKNAME \o ": thank you"},
                            k \in 1..MaxRefs}

PubmsgEvent(t, s, m) == [target |-> t, source |-> s, arguments |-> <<m>>]

\* lines sent by a nick of the bot's own family
SelfTexts ==
    {"hello there", "see rt#1", IRC_NICKNAME \o ": thanks", IRC_NICKNAME \o ": list",
     IRC_NICKNAME \o ": approve bob rt#1"}

PubmsgEvents ==
    {PubmsgEvent(t, Source("alice"), m) : t \in DOMAIN channels, m \in Texts}
    \cup {PubmsgEvent(t, Source("create-jo"), m) : t \in DOMAIN channels, m \in SelfTexts}
    \cup {PubmsgEvent(t, s, IRC_NICKNAME \o ": thanks") :
              t \in DOMAIN channels, s \in MalformedSources}
    \cup {PubmsgEvent(t, Source("alice"), m) :
              t \in AllChannels \ DOMAIN channels,
              m \in {IRC_NICKNAME \o ": thanks", "see rt#1"}}

\* the answers the handler can get from the ticket service and the task queue
LookupAnswers(event) == [1..Len(FindTickets(event.arguments[1])) -> BOOLEAN]

WaitAnswers(event) ==
    LET command == Head(Split(Strip(Suffix(event.arguments[1], Len(IRC_NICKNAME) + 2)), " "))
    IN  CASE command = "list" -> TaskOutcomes
          [] command \in {"approve", "reject"} -> TaskFates
          [] OTHER -> {NoOutcome}

(* ----------------------------- chat session --------------------------- *)
Running == sup_pc # "raised"

\* bot.start(): the connection to the server is made
BotConnect ==
    /\ Running /\ bot_pc = "start"
    /\ bot_pc' = "connected"
    /\ UNCHANGED <<user, channels, relay_pc, relay_exc, sup_pc, sup_exc, last, sending>>

OnWelcome ==
    /\ Running /\ bot_pc = "connected"
    /\ bot_pc' = "running"
    /\ channels' = [c \in Range(IRC_CHANNELS) |-> {}]
    /\ UNCHANGED <<user, relay_pc, relay_exc, sup_pc, sup_exc, last, sending>>

\* the server grants or takes operator status in a joined channel
ModeChange ==
    /\ Running /\ bot_pc = "running"
    /\ \E c \in DOMAIN channels, n \in Nicks :
          channels' = [channels EXCEPT ![c] =
                          IF n \in @ THEN @ \ {n} ELSE @ \cup {n}]
    /\ UNCHANGED <<user, bot_pc, relay_pc, relay_exc, sup_pc, sup_exc, last, sending>>

\* the thread that ran the handler recorded in last
Owner(frame) == IF frame.op = "pubmsg" THEN "bot_thread" ELSE "celery_thread"

\* a thread is in one handler at a time: it enters the next one when the
\* socket write of its last privmsg is over and its last handler has returned
Idle(thread) ==
    /\ thread \notin sending
    /\ last.op # "none" => Owner(last) # thread

\* the handler ends inside its last conn.privmsg, if it made one
Sending(thread, res) == IF res.out # <<>> THEN sending \cup {thread} ELSE sending

\* the reactor calls on_pubmsg; a dispatch is recorded into a free record
OnPubmsg ==
    /\ Running /\ bot_pc = "running" /\ Idle("bot_thread") /\ last.op = "none"
    /\ \E event \in PubmsgEvents :
       \E found \in LookupAnswers(event) :
       \E outcome \in WaitAnswers(event) :
          LET res == on_pubmsg(event, found, outcome)
          IN  /\ last' = [op |-> "pubmsg", event |-> event, res |-> res]
              /\ bot_pc' = IF res.exc # "" THEN "dead" ELSE "running"
              /\ sending' = Sending("bot_thread", res)
    /\ UNCHANGED <<user, channels, relay_pc, relay_exc, sup_pc, sup_exc>>

(* ------------------------------ event relay --------------------------- *)
Announcement(targets, message) == [targets |-> targets, message |-> message]

on_account_created(event) ==
    Announcement(IRC_CHANNELS_ANNOUNCE,
                 event.request.user_name \o " created ("
                     \o event.request.real_name \o ")")

on_account_submitted(event) ==
    Announcement(IRC_CHANNELS,
                 event.request.user_name \o " (" \o event.request.real_name
                     \o ") needs approval: " \o Join(event.request.reasons, ", "))

on_account_approved(event) ==
    Announcement(IRC_CHANNELS_ANNOUNCE,
                 event.request.user_name \o " was approved, now pending creation.")

on_account_rejected(event) ==
    Announcement(IRC_CHANNELS_ANNOUNCE,
                 event.request.user_name \o " was rejected.")

\* the handlers map of the EventReceiver
Handler(event) ==
    CASE event.type = "ocflib.account_created" -> on_account_created(event)
      [] event.type = "ocflib.account_submitted" -> on_account_submitted(event)
      [] event.type = "ocflib.account_approved" -> on_account_approved(event)
      [] event.type = "ocflib.account_rejected" -> on_account_rejected(event)

\* bot.connection has a socket once bot.start() has connected
Connected == bot_pc # "start"

RECURSIVE SendAll(_, _)
SendAll(targets, message) ==
    IF targets = <<>> THEN <<>>
    ELSE <<[target |-> Head(targets), text |-> message]>>
         \o SendAll(Tail(targets), message)

\* bot_announce: privmsg raises ServerNotConnectedError on a connection
\* without a socket, at the first target
bot_announce(targets, message) ==
    IF targets # <<>> /\ ~Connected
    THEN [out |-> <<>>, exc |-> "ServerNotConnectedError"]
    ELSE [out |-> SendAll(targets, message), exc |-> ""]

EventTypes ==
    {"ocflib.account_created", "ocflib.account_submitted",
     "ocflib.account_approved", "ocflib.account_rejected"}

Reason(i) ==
    CASE i = 1 -> "bad id" [] i = 2 -> "missing photo" [] OTHER -> "reason " \o Str(i)

RECURSIVE Reasons(_)
Reasons(n) == IF n = 0 THEN <<>> ELSE Reasons(n - 1) \o <<Reason(n)>>

LifecycleEvents ==
    {[type |-> t,
      request |-> [user_name |-> "bob", real_name |-> "Bob Bee", reasons |-> Reasons(n)]] :
        t \in EventTypes, n \in 0..MaxReasons}

\* `with connection as conn: recv = EventReceiver(...)`
RelayConnect ==
    /\ Running /\ relay_pc = "connect"
    /\ relay_pc' = "capture"
    /\ UNCHANGED <<user, bot_pc, channels, relay_exc, sup_pc, sup_exc, last, sending>>

\* recv.capture() delivers one event to its handler; an exception of the
\* handler leaves capture, the with block and the while loop
RelayEvent ==
    /\ Running /\ relay_pc = "capture" /\ Idle("celery_thread")
    /\ \E event \in LifecycleEvents :
          LET a == Handler(event)
              res == bot_announce(a.targets, a.message)
          IN  /\ last' = [op |-> "event", event |-> event, res |-> res]
              /\ relay_pc' = IF res.exc # "" THEN "dead" ELSE "capture"
              /\ relay_exc' = res.exc
              /\ sending' = Sending("celery_thread", res)
    /\ UNCHANGED <<user, bot_pc, channels, sup_pc, sup_exc>>

\* recv.capture() raises because the broker connection is lost: nothing in
\* celery_listener catches it, so it leaves the while loop as well
RelayTransportError ==
    /\ Running /\ relay_pc = "capture"
    /\ relay_pc' = "dead"
    /\ relay_exc' = "ConnectionError"
    /\ UNCHANGED <<user, bot_pc, channels, sup_pc, sup_exc, last, sending>>

\* conn.privmsg returns: the socket write of the thread is over
PrivmsgReturn ==
    /\ Running
    /\ \E thread \in sending : sending' = sending \ {thread}
    /\ UNCHANGED <<user, bot_pc, channels, relay_pc, relay_exc, sup_pc, sup_exc, last>>

\* the handler has returned to its loop and its frame is gone: the record of
\* the finished dispatch is dropped before the next one is recorded
HandlerReturn ==
    /\ Running /\ last.op # "none" /\ Owner(last) \notin sending
    /\ last' = [op |-> "none"]
    /\ UNCHANGED <<user, bot_pc, channels, relay_pc, relay_exc, sup_pc, sup_exc, sending>>

(* ------------------------------ supervisor ---------------------------- *)
\* the tuple the loop of main iterates over
Threads_bot_only == <<"bot_thread">>

Threads == <<"bot_thread", "celery_thread">>

is_alive(thread) ==
    IF thread = "bot_thread" THEN bot_pc # "dead" ELSE relay_pc # "dead"

\* one `if not thread.is_alive(): raise RuntimeError(...)`
SupCheck ==
    /\ Running
    /\ \E i \in 1..Len(Threads) :
          /\ sup_pc = "check_" \o Threads[i]
          /\ IF ~is_alive(Threads[i])
             THEN sup_pc' = "raised" /\ sup_exc' = Threads[i]
             ELSE /\ sup_pc' = IF i < Len(Threads)
                               THEN "check_" \o Threads[i + 1] ELSE "sleep"
                  /\ UNCHANGED sup_exc
    /\ UNCHANGED <<user, bot_pc, channels, relay_pc, relay_exc, last, sending>>

\* time.sleep(0.1), then the next round
SupSleep ==
    /\ Running /\ sup_pc = "sleep"
    /\ sup_pc' = "check_" \o Threads[1]
    /\ UNCHANGED <<user, bot_pc, channels, relay_pc, relay_exc, sup_exc, last, sending>>

Supervisor == SupCheck \/ SupSleep

(* ---------------------------- specification --------------------------- *)
\* main has started both threads and enters its loop
Init ==
    /\ user \in Users
    /\ bot_pc = "start"
    /\ channels = <<>>
    /\ relay_pc = "connect"
    /\ relay_exc = ""
    /\ sup_pc = "check_bot_thread"
    /\ sup_exc = ""
    /\ last = [op |-> "none"]
    /\ sending = {}

Next ==
    \/ BotConnect
    \/ OnWelcome
    \/ ModeChange
    \/ OnPubmsg
    \/ RelayConnect
    \/ RelayEvent
    \/ RelayTransportError
    \/ PrivmsgReturn
    \/ HandlerReturn
    \/ SupCheck
    \/ SupSleep

Spec == Init /\ [][Next]_vars

\* the main thread is scheduled as long as it can take a step
FairSpec == Spec /\ WF_vars(Supervisor)

(* ------------------------------ properties ---------------------------- *)
\* the nick of a source: what precedes its first '!'
NickOf(source) == Split(source, "!")[1]

\* the last handler run was on_pubmsg, on a line of a joined channel
Dispatched == last.op = "pubmsg" /\ last.event.target \in DOMAIN channels

\* ... whose source is well formed and whose sender is not the bot's family
Processed ==
    /\ Dispatched
    /\ Count(last.event.source, "!") = 1
    /\ ~StartsWith(NickOf(last.event.source), "create")

Mentioned(msg) ==
    \/ StartsWith(msg, IRC_NICKNAME \o " ")
    \/ StartsWith(msg, IRC_NICKNAME \o ": ")

\* C1: a public message of a joined channel whose sender nick begins with
\* 'create' gets no response and submits no task, whatever its text and
\* whether or not the sender is an operator of the channel.
C1_SelfMessagesIgnored ==
    (Dispatched /\ StartsWith(NickOf(last.event.source), "create"))
        => /\ last.res.out = <<>>
           /\ last.res.tasks = <<>>
           /\ ~last.res.handled

C1_Witness ==
    /\ Dispatched
    /\ last.event.source = Source("create-jo")
    /\ "create-jo" \in channels[last.event.target]
    /\ FindTickets(last.event.arguments[1]) # <<>>
    /\ Mentioned(last.event.arguments[1])
    /\ last.res.stage = "self"
    /\ last.res.out = <<>>

\* the index of the j-th successful lookup among the answers found
NthFound(found, j) ==
    CHOOSE i \in DOMAIN found :
        found[i] /\ Cardinality({h \in 1..i : found[h]}) = j

\* C2: a processed message with k ticket references gets exactly one
\* response per successful lookup (k when all succeed, j < k when only j
\* do), in the order of the references; a failed lookup raises nothing out
\* of on_pubmsg and does not stop the later references from being answered.
C2_TicketReplies ==
    (Processed /\ FindTickets(last.event.arguments[1]) # <<>>)
        => LET tickets == FindTickets(last.event.arguments[1])
               found == last.res.found
               out == last.res.out
           IN  /\ last.res.exc = ""
               /\ DOMAIN found = 1..Len(tickets)
               /\ Len(out) = Cardinality({i \in DOMAIN found : found[i]})
               /\ \A j \in 1..Len(out) :
                     /\ out[j].target = last.event.target
                     /\ out[j].text = NickOf(last.event.source) \o ": rt#"
                                        \o Str(Int(tickets[NthFound(found, j)]))

C2_Witness ==
    /\ Processed
    /\ Len(FindTickets(last.event.arguments[1])) = 2
    /\ last.res.found = <<FALSE, TRUE>>
    /\ Len(last.res.out) = 1
    /\ last.res.out[1].text = "alice: rt#2"

\* C3 (as claimed): a processed message that is mention-prefixed and holds a
\* ticket reference has its references answered and its command handed to
\* handle_command as well.
C3_TicketsAndCommand ==
    (Processed /\ Mentioned(last.event.arguments[1])
               /\ FindTickets(last.event.arguments[1]) # <<>>)
        => /\ last.res.tickets # <<>>
           /\ last.res.handled

\* C4: for a sender who is not an operator, list, approve and reject send
\* nothing and submit nothing; thanks and thank are answered for every
\* sender.
C4_PrivilegeGate ==
    (Processed /\ last.res.handled)
        => /\ (~last.res.is_oper /\ last.res.command \in {"list", "approve", "reject"})
                 => (last.res.out = <<>> /\ last.res.tasks = <<>> /\ last.res.exc = "")
           /\ ~last.res.is_oper => last.res.tasks = <<>>
           /\ last.res.command = "thanks"
                 => last.res.out = <<[target |-> last.event.target,
                                      text |-> NickOf(last.event.source)
                                                 \o ": you're welcome"]>>
           /\ last.res.command = "thank" => Len(last.res.out) = 1

C4_Witness ==
    /\ Processed /\ last.res.handled
    /\ ~last.res.is_oper
    /\ last.res.command = "approve" /\ last.res.args = <<"bob">>
    /\ last.res.out = <<>> /\ last.res.tasks = <<>>

\* C5: operator status is read when the message is dispatched: a command is
\* handled as privileged exactly when the sender is, at that moment, in the
\* operator set of the channel the message came from.
C5_OperAtDispatch ==
    [][(last.op = "none" /\ last'.op = "pubmsg" /\ last'.res.stage \in {"tickets", "command", "ignored"})
          => LET nick == NickOf(last'.event.source)
                 now == nick \in channels[last'.event.target]
                 privileged == last'.res.tasks # <<>> \/ last'.res.exc = "IndexError"
             IN  /\ last'.res.is_oper = now
                 /\ (last'.res.handled
                       /\ last'.res.command \in {"list", "approve", "reject"})
                        => (privileged = now)]_vars

C5_Witness ==
    /\ Processed /\ last.res.handled
    /\ last.res.command = "list"
    /\ last.event.target = "#rebuild"
    /\ ~last.res.is_oper /\ last.res.tasks = <<>>
    /\ NickOf(last.event.source) \in channels["#atool"]
    /\ NickOf(last.event.source) \notin channels["#rebuild"]

\* C6 (as claimed): a transport error raised by capture sends the relay back
\* to subscribing; it never leaves the relay thread terminated.
C6_RelayResubscribes ==
    relay_exc = "ConnectionError" => relay_pc \in {"connect", "capture"}

\* the announcement an event must produce: one message per channel of its
\* target set, with the text of its kind
ExpectedTargets(event) ==
    IF event.type = "ocflib.account_submitted"
    THEN IRC_CHANNELS ELSE IRC_CHANNELS_ANNOUNCE

ExpectedText(event) ==
    LET r == event.request
    IN  CASE event.type = "ocflib.account_created" ->
                r.user_name \o " created (" \o r.real_name \o ")"
          [] event.type = "ocflib.account_submitted" ->
                r.user_name \o " (" \o r.real_name \o ") needs approval: "
                    \o Join(r.reasons, ", ")
          [] event.type = "ocflib.account_approved" ->
                r.user_name \o " was approved, now pending creation."
          [] event.type = "ocflib.account_rejected" ->
                r.user_name \o " was rejected."

ExactlyOnePerTarget(event, out) ==
    /\ Len(out) = Len(ExpectedTargets(event))
    /\ \A i \in 1..Len(out) :
          /\ out[i].target = ExpectedTargets(event)[i]
          /\ out[i].text = ExpectedText(event)
          /\ out[i].text # ""

\* C7 (as claimed): every lifecycle event the relay receives results in
\* exactly one message per channel of its target set, with the text of its
\* kind, and in no other message.
C7_EveryEventAnnounced ==
    last.op = "event" => ExactlyOnePerTarget(last.event, last.res.out)

\* C8: once a supervised thread has terminated, main raises a RuntimeError
\* naming a terminated thread and nothing runs after it; main raises only
\* for a thread that has terminated, so never while both are alive.
C8_FailFast ==
    /\ [](sup_pc = "raised" => (sup_exc \in Range(Threads) /\ ~is_alive(sup_exc)))
    /\ [](sup_pc # "raised" => sup_exc = "")
    /\ [][sup_pc # "raised"]_vars
    /\ (~is_alive("bot_thread") \/ ~is_alive("celery_thread")) ~> (sup_pc = "raised")

C8_Witness ==
    /\ sup_pc = "raised"
    /\ sup_exc = "celery_thread"
    /\ is_alive("bot_thread")
    /\ ~is_alive("celery_thread")

\* C9: the command thank gets exactly one response, in the channel of the
\* message: "you're most welcome" addressed to the sender when the joined
\* arguments are "you", and the bare text "thanks, <words>!" otherwise.
C9_Thank ==
    (Processed /\ last.res.handled /\ last.res.command = "thank")
        => LET thing == Join(last.res.args, " ")
           IN  /\ last.res.exc = ""
               /\ Len(last.res.out) = 1
               /\ last.res.out[1].target = last.event.target
               /\ last.res.out[1].text =
                     IF thing = "you"
                     THEN NickOf(last.event.source) \o ": you're most welcome"
                     ELSE "thanks, " \o thing \o "!"

C9_Witness ==
    /\ Processed /\ last.res.handled
    /\ last.res.command = "thank"
    /\ last.res.args = <<"pizza", "pie">>
    /\ last.res.out = <<[target |-> last.event.target, text |-> "thanks, pizza pie!"]>>

(* ------------------------------ lab plugin ---------------------------- *)
\* CreateBot defines no listen method and on_pubmsg consults no registry:
\* what follows is what register and in_lab ask of the bot, to be compared
\* with what on_pubmsg does with the same line.
LowerChars ==
    {"a", "b", "c", "d", "e", "f", "g", "h", "i", "j", "k", "l", "m",
     "n", "o", "p", "q", "r", "s", "t", "u", "v", "w", "x", "y", "z"}

RECURSIVE LowerRun(_)
LowerRun(s) ==
    IF s # "" /\ Char(s, 1) \in LowerChars
    THEN Char(s, 1) \o LowerRun(Suffix(s, 2)) ELSE ""

\* r'is ([a-z]+) in the lab' matched at the start of s: group 1, or ""
InLabAt(s) ==
    IF StartsWith(s, "is ")
       /\ LowerRun(Suffix(s, 4)) # ""
       /\ StartsWith(Suffix(s, 4 + Len(LowerRun(Suffix(s, 4)))), " in the lab")
    THEN LowerRun(Suffix(s, 4)) ELSE ""

\* the first match of the pattern anywhere in s: group 1, or ""
RECURSIVE InLabSearch(_)
InLabSearch(s) ==
    IF s = "" THEN ""
    ELSE IF InLabAt(s) # "" THEN InLabAt(s) ELSE InLabSearch(Suffix(s, 2))

\* in_lab: one msg.respond, whether or not the staffer is found
in_lab(username, present) ==
    IF present THEN username \o " is in the lab" ELSE username \o " is not in the lab"

\* C10 (as claimed): a mention-prefixed line that matches the pattern
\* registered for in_lab has in_lab run exactly once, hence exactly one
\* response, that of in_lab, in the channel of the line.
C10_ListenerDispatchedOnce ==
    (Processed /\ Mentioned(last.event.arguments[1])
               /\ InLabSearch(last.event.arguments[1]) # "")
        => /\ Len(last.res.out) = 1
           /\ last.res.out[1].target = last.event.target
           /\ \E present \in BOOLEAN :
                 last.res.out[1].text \in
                     {in_lab(InLabSearch(last.event.arguments[1]), present),
                      NickOf(last.event.source) \o ": "
                          \o in_lab(InLabSearch(last.event.arguments[1]), present)}

(* ------------------------- error containment -------------------------- *)
\* C11 (as claimed): a line whose source does not hold exactly one '!' is
\* dropped: nothing is sent, nothing submitted, no exception leaves
\* on_pubmsg and the chat-session thread stays alive.
C11_MalformedSourceDropped ==
    (Dispatched /\ Count(last.event.source, "!") # 1)
        => /\ last.res.out = <<>>
           /\ last.res.tasks = <<>>
           /\ last.res.exc = ""
           /\ is_alive("bot_thread")

\* C12 (as claimed): whatever the command and the number of its arguments,
\* handle_command ends without an uncaught exception and the chat-session
\* thread stays alive; approve and reject without a name submit nothing.
\* (The failure of an awaited task is another matter and is left out here.)
C12_CommandShapeHarmless ==
    (Processed /\ last.res.handled /\ last.res.exc # "TaskError")
        => /\ last.res.exc = ""
           /\ is_alive("bot_thread")
           /\ (last.res.command \in {"approve", "reject"} /\ last.res.args = <<>>)
                 => last.res.tasks = <<>>

\* C13 (as claimed): an operator's list submits get_pending_requests once
\* and ends in one of three ways: one response per pending request, in
\* order, or the single "no pending requests", or the single timeout
\* apology.
C13_ListOutcomes ==
    (Processed /\ last.res.handled /\ last.res.is_oper /\ last.res.command = "list")
        => LET nick == NickOf(last.event.source)
               line(text) == [target |-> last.event.target, text |-> nick \o ": " \o text]
               out == last.res.out
           IN  /\ last.res.tasks = <<Task("get_pending_requests", <<>>)>>
               /\ last.res.exc = ""
               /\ \/ /\ last.res.outcome.kind = "result"
                     /\ last.res.outcome.result # <<>>
                     /\ Len(out) = Len(last.res.outcome.result)
                     /\ \A i \in 1..Len(out) : out[i] = line(last.res.outcome.result[i])
                  \/ /\ last.res.outcome.kind = "result"
                     /\ last.res.outcome.result = <<>>
                     /\ out = <<line("no pending requests")>>
                  \/ /\ last.res.outcome.kind = "TimeoutError"
                     /\ out = <<line("timed out loading list of requests, sorry!")>>

\* C14: an operator's approve or reject with a name submits the one task
\* with that name, then sends the one confirmation that names it; it does
\* not wait, so the confirmation is the same whether the task later
\* succeeds, fails or never ends, and the submission comes first.
C14_ApproveRejectOnce ==
    (/\ Processed /\ last.res.handled /\ last.res.is_oper
     /\ last.res.command \in {"approve", "reject"} /\ last.res.args # <<>>)
        => LET nick == NickOf(last.event.source)
               name == last.res.args[1]
               text == IF last.res.command = "approve"
                       THEN "approved " \o name \o ", the account is being created"
                       ELSE "rejected " \o name \o ", better luck next time"
           IN  /\ last.res.outcome \in TaskFates
               /\ last.res.tasks = <<Task(last.res.command \o "_request", <<name>>)>>
               /\ last.res.out = <<[target |-> last.event.target,
                                    text |-> nick \o ": " \o text]>>
               /\ last.res.order = <<"delay", "respond">>
               /\ last.res.exc = ""

C14_Witness ==
    /\ Processed /\ last.res.handled /\ last.res.is_oper
    /\ last.res.command = "approve" /\ last.res.args = <<"bob">>
    /\ last.res.outcome.kind = "failed"
    /\ last.res.tasks = <<Task("approve_request", <<"bob">>)>>
    /\ Len(last.res.out) = 1

\* C15: a call of handle_command whose command is none of list, approve,
\* reject, thanks and thank (the empty command of a bare mention included)
\* sends nothing and submits nothing, for operators and for everyone else.
C15_UnknownCommandSilent ==
    (/\ Processed /\ last.res.handled
     /\ last.res.command \notin {"list", "approve", "reject", "thanks", "thank"})
        => /\ last.res.out = <<>>
           /\ last.res.tasks = <<>>
           /\ last.res.order = <<>>
           /\ last.res.exc = ""

C15_Witness ==
    /\ Processed /\ last.res.handled /\ last.res.is_oper
    /\ last.event.arguments = <<IRC_NICKNAME \o ": ">>
    /\ last.res.command = ""
    /\ last.res.out = <<>>

\* C16: every response goes to the channel the message came from, and it
\* begins with '<nick>: ' except the reply to 'thank <words>' with words
\* other than "you", the only one sent with ping=False.
C16_ResponseTargetAndPing ==
    Processed =>
        LET nick == NickOf(last.event.source)
            unpinged == /\ last.res.handled /\ last.res.command = "thank"
                        /\ Join(last.res.args, " ") # "you"
        IN  \A i \in DOMAIN last.res.out :
                /\ last.res.out[i].target = last.event.target
                /\ StartsWith(last.res.out[i].text, nick \o ": ")
                      <=> ~(unpinged /\ i = Len(last.res.out))

C16_Witness ==
    /\ Processed /\ last.event.target = "#atool"
    /\ last.res.command = "list" /\ Len(last.res.out) = MaxPending
    /\ \A i \in DOMAIN last.res.out :
          /\ last.res.out[i].target = "#atool"
          /\ StartsWith(last.res.out[i].text, "alice: req")

(* ------------------------------ shared send --------------------------- *)
\* C17 (as claimed): the send of the connection, used by respond in the
\* chat-session thread and by bot_announce in the celery thread, is never
\* entered by one thread while the other is still inside it.
C17_SendsNeverOverlap == Cardinality(sending) <= 1

(* -------------------------------- start-up ---------------------------- *)
\* C18 (as claimed): when the relay handles a lifecycle event, the chat
\* session is connected and has joined every channel the announcement goes
\* to, so the event is announced and not lost. Taken in the configuration
\* of user 'nobody', where every announce channel is one on_welcome joins.
C18_AnnounceAfterJoin ==
    [][(user = "nobody" /\ last' # last /\ last'.op = "event")
          => /\ last'.res.exc = ""
             /\ last'.res.out # <<>>
             /\ \A i \in DOMAIN last'.res.out :
                   last'.res.out[i].target \in DOMAIN channels]_vars

\* C19 (as claimed): in every start-up configuration, once on_welcome has
\* run, the channels the relay announces to are channels the session joined.
C19_AnnounceWithinJoined ==
    bot_pc = "running" => Range(IRC_CHANNELS_ANNOUNCE) \subseteq DOMAIN channels

=============================================================================
